---- MODULE Spec2Model ----
(***************************************************************************)
(* Model of the forensic PMI calculators of chohyomin/Maggot_Project:      *)
(*   src/app.py   HenssgeCalculator, MasterPMICalculatorV16, Streamlit UI  *)
(*   src/main.py  BasicPMICalculator                                       *)
(*                                                                         *)
(* Numbers.  The code computes in floating point; the model computes the   *)
(* same expressions exactly, in fixed point.  A temperature is an integer  *)
(* number of 1/Deg degrees Celsius and an accumulated degree-hour value an *)
(* integer number of 1/Adh degree-hours.  Deg is chosen so that every      *)
(* value the engines can form from the modelled inputs (tenths of a degree,*)
(* thousandths of a damping factor, the mean of up to MaxLen whole-degree  *)
(* readings, tenths of a multiplier) is an integer.  Timestamps are whole  *)
(* hours.                                                                   *)
(***************************************************************************)
EXTENDS Integers, Sequences, FiniteSets, TLC

VARIABLES
    engine,           \* which calculator is running: "none", "master", "basic"
    pc,               \* position in the call: idle, loop, break, returned, raised
    args,             \* the arguments of the call
    idx,              \* number of rows of the series the for loop has consumed
    accumulated_adh,  \* accumulated_adh (app.py) / accumulated_heat (main.py)
    adh_history,      \* adh_history, the list of trace records (app.py only)
    estimated_time,   \* estimated_oviposition_time / estimated_time
    discovery_time,   \* df_weather['Time'].max()
    avg_air_temp,     \* df_weather['Temp'].mean()
    ret,              \* the value handed back to the caller
    h_args,           \* arguments of HenssgeCalculator.calculate
    h_ret,            \* its return value
    session,          \* st.session_state entries the insect tab uses
    last_fetch,       \* outcome of the weather load of the latest script run
    engine_ran,       \* whether the latest script run invoked the engine
    ui_out            \* what the latest script run showed

vars == <<engine, pc, args, idx, accumulated_adh, adh_history, estimated_time,
          discovery_time, avg_air_temp, ret, h_args, h_ret,
          session, last_fetch, engine_ran, ui_out>>

engineVars == <<engine, pc, args, idx, accumulated_adh, adh_history,
                estimated_time, discovery_time, avg_air_temp, ret>>
henssgeVars == <<h_args, h_ret>>
uiVars == <<session, last_fetch, engine_ran, ui_out>>

-----------------------------------------------------------------------------
(* Bounds and units *)

\* longest temperature series handed to an engine
MaxLen == 3

\* timestamps are the hours 0..MaxTime, so a series shorter than MaxLen may have gaps
MaxTime == MaxLen - 1

\* Python's None (also NaT / NaN of an empty frame); no timestamp is negative
None == 0 - 1

RECURSIVE Gcd(_, _)
Gcd(a, b) == IF b = 0 THEN a ELSE Gcd(b, a % b)

RECURSIVE LcmUpTo(_)
LcmUpTo(n) == IF n <= 1 THEN 1 ELSE (LcmUpTo(n - 1) * n) \div Gcd(LcmUpTo(n - 1), n)

\* units per degree Celsius: thousandths, times every possible series length
Deg == 1000 * LcmUpTo(MaxLen)

\* units per degree-hour: a multiplier is given in tenths
Adh == 10 * Deg

Min(a, b) == IF a <= b THEN a ELSE b

RECURSIVE SumTemp(_)
SumTemp(df) == IF df = <<>> THEN 0 ELSE Head(df).Temp + SumTemp(Tail(df))

RECURSIVE MaxTimeOf(_)
MaxTimeOf(df) ==
    IF df = <<>> THEN None
    ELSE LET m == MaxTimeOf(Tail(df))
         IN IF Head(df).Time >= m THEN Head(df).Time ELSE m

-----------------------------------------------------------------------------
(* Reference tables *)

\* MasterPMICalculatorV16.insect_db; LDT and UDT in tenths of a degree
insect_db ==
    [sp \in {"Lucilia sericata (Global/Avg)",
             "Lucilia sericata (Korea - Busan)",
             "Chrysomya megacephala"} |->
        CASE sp = "Lucilia sericata (Global/Avg)" ->
                [LDT |-> 90, UDT |-> 350,
                 stages |-> [egg |-> 20, instar_1 |-> 300, instar_2 |-> 800,
                             instar_3_feed |-> 1400, instar_3_wander |-> 2400,
                             pupa |-> 4000]]
          [] sp = "Lucilia sericata (Korea - Busan)" ->
                [LDT |-> 45, UDT |-> 350,
                 stages |-> [egg |-> 35, instar_1 |-> 150, instar_2 |-> 350,
                             instar_3_feed |-> 550, instar_3_wander |-> 702,
                             pupa |-> 4901, adult |-> 6483]]
          [] sp = "Chrysomya megacephala" ->
                [LDT |-> 100, UDT |-> 400,
                 stages |-> [egg |-> 15, instar_1 |-> 300, instar_2 |-> 700,
                             instar_3_feed |-> 1300, instar_3_wander |-> 2200,
                             pupa |-> 3800]]]

\* BasicPMICalculator.insect_db
basic_insect_db ==
    [sp \in {"lucilia_sericata", "chrysomya_megacephala"} |->
        CASE sp = "lucilia_sericata" ->
                [LDT |-> 90,
                 stages |-> [egg |-> 23, instar_1 |-> 400, instar_2 |-> 900,
                             instar_3 |-> 2000, pupa |-> 4500]]
          [] sp = "chrysomya_megacephala" ->
                [LDT |-> 100,
                 stages |-> [egg |-> 18, instar_1 |-> 350, instar_2 |-> 800,
                             instar_3 |-> 1800, pupa |-> 4000]]]

\* a tenths-of-a-degree table entry in model units
Tenths(x) == x * (Deg \div 10)

\* dict.get(key, 0)
StagesGet(stages, key) == IF key \in DOMAIN stages THEN stages[key] ELSE 0

-----------------------------------------------------------------------------
(* MasterPMICalculatorV16: the per-sample correction pipeline *)

\* Damp without the cap at 1.0
Damp_Uncapped(depth) == depth * 15

\* damp = min(1.0, depth * 0.015), in thousandths
Damp(depth) == Min(1000, depth * 15)

\* depth * 0.05 degrees
DepthCooling(depth) == depth * 5 * (Deg \div 100)

\* 1. soil / burial correction of one reading
SoilCorrect(soil, base_temp, avg) ==
    IF soil.active
    THEN IF soil.use_measured
         THEN soil.measured_temp * Deg
         ELSE LET damp == Damp(soil.depth)
                  blended == (base_temp * (1000 - damp) + avg * damp) \div 1000
              IN  IF base_temp > 20 * Deg
                  THEN blended - DepthCooling(soil.depth)
                  ELSE blended
    ELSE base_temp

\* virtual_age_adh = target_adh - accumulated_adh, floored at 0
VirtualAge(target_adh, acc) ==
    IF target_adh - acc < 0 THEN 0 ELSE target_adh - acc

\* get_dynamic_heat with the instar_2 threshold counted into the 30% bin
get_dynamic_heat_ClosedBin(current_bio_adh, stages, max_heat) ==
    LET s2_limit == StagesGet(stages, "instar_2") * Adh
        s3_feed_limit == StagesGet(stages, "instar_3_feed") * Adh
        s3_wander_limit == StagesGet(stages, "instar_3_wander") * Adh
    IN  IF current_bio_adh < StagesGet(stages, "instar_1") * Adh THEN 0
        ELSE IF current_bio_adh <= s2_limit THEN (max_heat * Deg * 3) \div 10
        ELSE IF current_bio_adh < s3_feed_limit THEN max_heat * Deg
        ELSE IF current_bio_adh < s3_wander_limit THEN (max_heat * Deg * 2) \div 10
        ELSE 0

\* get_dynamic_heat(current_bio_adh, stages, max_heat); max_heat in whole degrees
get_dynamic_heat(current_bio_adh, stages, max_heat) ==
    LET s2_limit == StagesGet(stages, "instar_2") * Adh
        s3_feed_limit == StagesGet(stages, "instar_3_feed") * Adh
        s3_wander_limit == StagesGet(stages, "instar_3_wander") * Adh
    IN  IF current_bio_adh < StagesGet(stages, "instar_1") * Adh THEN 0
        ELSE IF current_bio_adh < s2_limit THEN (max_heat * Deg * 3) \div 10
        ELSE IF current_bio_adh < s3_feed_limit THEN max_heat * Deg
        ELSE IF current_bio_adh < s3_wander_limit THEN (max_heat * Deg * 2) \div 10
        ELSE 0

\* 2. dynamic maggot-mass heat of one sample
DynamicHeat(target_adh, acc, stages, max_maggot_heat) ==
    IF max_maggot_heat > 0
    THEN get_dynamic_heat(VirtualAge(target_adh, acc), stages, max_maggot_heat)
    ELSE 0

\* hours_diff = (discovery_time - time_val).total_seconds() / 3600
HoursDiff(discovery, time_val) == discovery - time_val

\* IsEvent with the far end of the window left out
IsEvent_OpenEnd(event, hours_diff) ==
    IF event.active
    THEN LET start_window == event.end_hours_ago
             end_window == event.end_hours_ago + event.duration
         IN  start_window <= hours_diff /\ hours_diff < end_window
    ELSE FALSE

\* 3. whether the scenario event applies to a sample of that age
IsEvent(event, hours_diff) ==
    IF event.active
    THEN LET start_window == event.end_hours_ago
             end_window == event.end_hours_ago + event.duration
         IN  start_window <= hours_diff /\ hours_diff <= end_window
    ELSE FALSE

\* 4. overheat flag
IsOver(current_temp, udt) == current_temp >= udt

\* EffHeat with growth suspended only above UDT, not at it
EffHeat_UdtExclusive(current_temp, ldt, udt, correction) ==
    IF current_temp > udt THEN 0
    ELSE IF current_temp > ldt THEN (current_temp - ldt) * correction
    ELSE 0

\* 4. heat contribution; correction in tenths, result in 1/Adh degree-hours
EffHeat(current_temp, ldt, udt, correction) ==
    IF current_temp >= udt THEN 0
    ELSE IF current_temp > ldt THEN (current_temp - ldt) * correction
    ELSE 0

\* the break test passing only once the target is exceeded
TargetReached_Strict(acc, target_adh) == acc > target_adh

\* the break test after each sample (both engines)
TargetReached(acc, target_adh) == acc >= target_adh

\* the onset variable tracking every sample the loop has seen
NextEstimate_EverySample(reached, time_val, estimated) == time_val

\* the onset variable after the break test: set on the crossing sample only
NextEstimate(reached, time_val, estimated) ==
    IF reached THEN time_val ELSE estimated

\* the previous running total a trace ends with
LastTotal(hist) ==
    IF hist = <<>> THEN 0 ELSE hist[Len(hist)].Accumulated_ADH_Reverse

\* adh_history.append kept for samples that added heat only
TraceAfter_SkipZero(hist, rec) ==
    IF rec.Accumulated_ADH_Reverse = LastTotal(hist) THEN hist ELSE Append(hist, rec)

\* adh_history.append({...}): every processed sample leaves a record
TraceAfter(hist, rec) == Append(hist, rec)

\* one pass through the body of the for loop of calculate
SampleStep(a, row, acc, discovery, avg) ==
    LET data == insect_db[a.species]
        ldt == Tenths(data.LDT)
        udt == Tenths(data.UDT)
        target_adh == data.stages[a.stage] * Adh
        base_temp == row.Temp * Deg
        soil_temp == SoilCorrect(a.soil_params, base_temp, avg)
        dynamic_heat == DynamicHeat(target_adh, acc, data.stages, a.max_maggot_heat)
        is_event == IsEvent(a.event_params, HoursDiff(discovery, row.Time))
        current_temp == soil_temp + dynamic_heat + a.sun_exposure * Deg
                        + (IF is_event THEN a.event_params.temp_increase * Deg ELSE 0)
        eff_heat == EffHeat(current_temp, ldt, udt, a.correction)
    IN  [acc |-> acc + eff_heat,
         rec |-> [Time |-> row.Time,
                  Base_Temp |-> base_temp,
                  Final_Temp |-> current_temp,
                  Applied_Maggot_Heat |-> dynamic_heat,
                  Accumulated_ADH_Reverse |-> acc + eff_heat,
                  Target_ADH |-> target_adh,
                  Overheat_Status |-> IsOver(current_temp, udt),
                  Event_Active |-> is_event]]

-----------------------------------------------------------------------------
(* Inputs *)

\* hourly readings, whole degrees Celsius
TempSet == {4, 20, 30}

Sample == [Time : 0..MaxTime, Temp : TempSet]

\* a weather series as the UI hands it over: newest first, distinct hours
SeriesSet ==
    {df \in UNION {[1..n -> Sample] : n \in 0..MaxLen} :
        \A i \in 1..Len(df) : \A j \in 1..Len(df) :
            i < j => df[i].Time > df[j].Time}

\* species and stage names a caller may pass; some are in no table
SpeciesSet == DOMAIN insect_db \cup {"Calliphora vicina"}
StageSet == {"egg", "instar_1", "instar_2", "instar_3_feed", "instar_3_wander", "adult"}

\* growth-rate multiplier in tenths (default 1.0; main.py's example uses 1.2)
CorrectionSet == {10, 12}

\* max_heat slider (0.0 .. 20.0, default 5.0), 0 when the box is unticked
MaxHeatSet == {0, 5}

\* sun_v: shade, none/buried, sun
SunSet == {0 - 2, 0, 5}

\* ev_cfg: the UI defaults with the box unticked, and an active window
EventSet ==
    {[active |-> FALSE, temp_increase |-> 15, duration |-> 2, end_hours_ago |-> 6],
     [active |-> TRUE, temp_increase |-> 10, duration |-> 1, end_hours_ago |-> 1]}

\* deepest burial the depth slider allows
MaxDepth == 200

\* soil_cfg, and a direct caller's measured soil temperature
SoilSet ==
    {[active |-> FALSE, use_measured |-> FALSE, depth |-> 30, measured_temp |-> 0]}
    \cup {[active |-> TRUE, use_measured |-> FALSE, depth |-> d, measured_temp |-> 0] :
            d \in {0, 30, MaxDepth}}
    \cup {[active |-> TRUE, use_measured |-> TRUE, depth |-> 30, measured_temp |-> 25]}

\* calculate's keyword defaults: correction=1.0, max_maggot_heat=0.0,
\* sun_exposure=0.0, no event, no soil correction
Departures(c) ==
    (IF c.correction # 10 THEN 1 ELSE 0)
    + (IF c.max_maggot_heat # 0 THEN 1 ELSE 0)
    + (IF c.sun_exposure # 0 THEN 1 ELSE 0)
    + (IF c.event_params.active THEN 1 ELSE 0)
    + (IF c.soil_params.active THEN 1 ELSE 0)

\* correction contexts: every pair of corrections is combined
ContextSet ==
    {c \in [correction : CorrectionSet, max_maggot_heat : MaxHeatSet,
            sun_exposure : SunSet, event_params : EventSet, soil_params : SoilSet] :
        Departures(c) <= 2}

\* names and multipliers passed to BasicPMICalculator.calculate_pmi
BasicSpeciesSet == DOMAIN basic_insect_db \cup {"calliphora_vicina"}
BasicStageSet == {"egg", "instar_1", "instar_3_feed"}
BasicCorrectionSet == {9, 10, 12}

-----------------------------------------------------------------------------
(* MasterPMICalculatorV16.calculate as a state machine *)

Init ==
    /\ engine = "none"
    /\ pc = "idle"
    /\ args = <<>>
    /\ idx = 0
    /\ accumulated_adh = 0
    /\ adh_history = <<>>
    /\ estimated_time = None
    /\ discovery_time = None
    /\ avg_air_temp = None
    /\ ret = <<>>
    /\ h_args = <<>>
    /\ h_ret = <<>>
    /\ session = <<>>
    /\ last_fetch = "none"
    /\ engine_ran = FALSE
    /\ ui_out = <<>>

\* df_weather['Temp'].mean(), NaN for an empty frame
Mean(df) == IF df = <<>> THEN None ELSE (SumTemp(df) * Deg) \div Len(df)

\* lines 110-121: the table lookups raise KeyError for a name in no table
MasterCall(a) ==
    /\ pc = "idle"
    /\ engine' = "master"
    /\ args' = a
    /\ idx' = 0
    /\ accumulated_adh' = 0
    /\ adh_history' = <<>>
    /\ estimated_time' = None
    /\ IF a.species \in DOMAIN insect_db
          /\ a.stage \in DOMAIN insect_db[a.species].stages
       THEN /\ pc' = "loop"
            /\ discovery_time' = MaxTimeOf(a.df_weather)
            /\ avg_air_temp' = Mean(a.df_weather)
            /\ ret' = ret
       ELSE /\ pc' = "raised"
            /\ ret' = [exception |-> "KeyError"]
            /\ UNCHANGED <<discovery_time, avg_air_temp>>
    /\ UNCHANGED <<henssgeVars, uiVars>>

\* lines 124-187: one iteration of the for loop
MasterIterate ==
    /\ engine = "master"
    /\ pc = "loop"
    /\ idx < Len(args.df_weather)
    /\ LET row == args.df_weather[idx + 1]
           step == SampleStep(args, row, accumulated_adh, discovery_time, avg_air_temp)
       IN  /\ idx' = idx + 1
           /\ accumulated_adh' = step.acc
           /\ adh_history' = TraceAfter(adh_history, step.rec)
           /\ estimated_time' = NextEstimate(TargetReached(step.acc, step.rec.Target_ADH),
                                             row.Time, estimated_time)
           /\ pc' = IF TargetReached(step.acc, step.rec.Target_ADH)
                    THEN "break" ELSE "loop"
    /\ UNCHANGED <<engine, args, discovery_time, avg_air_temp, ret, henssgeVars, uiVars>>

\* line 189: the loop is left by break or by exhausting the series
MasterReturn ==
    /\ engine = "master"
    /\ \/ pc = "break"
       \/ pc = "loop" /\ idx = Len(args.df_weather)
    /\ pc' = "returned"
    /\ ret' = [onset |-> estimated_time, total |-> accumulated_adh, trace |-> adh_history]
    /\ UNCHANGED <<engine, args, idx, accumulated_adh, adh_history, estimated_time,
                   discovery_time, avg_air_temp, henssgeVars, uiVars>>

-----------------------------------------------------------------------------
(* BasicPMICalculator.calculate_pmi as a state machine *)

\* BasicHourlyHeat without the floor at LDT
BasicHourlyHeat_NoFloor(current_temp, ldt, correction_factor) ==
    (current_temp - ldt) * correction_factor

\* lines 74-80: the heat one record adds
BasicHourlyHeat(current_temp, ldt, correction_factor) ==
    LET effective_temp == current_temp - ldt
    IN  IF effective_temp > 0 THEN effective_temp * correction_factor ELSE 0

\* truth value of a timestamp or None (line 88); a datetime is always true
Truthy(t) == t # None

\* lines 47-66: validation, then the loop starts
BasicCall(species_key, current_stage, weather_data, correction_factor) ==
    /\ pc = "idle"
    /\ engine' = "basic"
    /\ args' = [species |-> species_key, stage |-> current_stage,
                df_weather |-> weather_data, correction |-> correction_factor]
    /\ idx' = 0
    /\ accumulated_adh' = 0
    /\ adh_history' = <<>>
    /\ estimated_time' = None
    /\ IF species_key \notin DOMAIN basic_insect_db
       THEN pc' = "returned" /\ ret' = [status |-> "error", msg |-> "unknown species"]
       ELSE IF current_stage \notin DOMAIN basic_insect_db[species_key].stages
       THEN pc' = "returned" /\ ret' = [status |-> "error", msg |-> "unknown stage"]
       ELSE pc' = "loop" /\ ret' = ret
    /\ UNCHANGED <<discovery_time, avg_air_temp, henssgeVars, uiVars>>

\* lines 69-85: one iteration of the for loop
BasicIterate ==
    /\ engine = "basic"
    /\ pc = "loop"
    /\ idx < Len(args.df_weather)
    /\ LET record == args.df_weather[idx + 1]
           species_info == basic_insect_db[args.species]
           target_adh == species_info.stages[args.stage] * Adh
           heat == BasicHourlyHeat(record.Temp * Deg, Tenths(species_info.LDT),
                                   args.correction)
       IN  /\ idx' = idx + 1
           /\ accumulated_adh' = accumulated_adh + heat
           /\ estimated_time' = NextEstimate(TargetReached(accumulated_adh + heat, target_adh),
                                             record.Time, estimated_time)
           /\ pc' = IF TargetReached(accumulated_adh + heat, target_adh)
                    THEN "break" ELSE "loop"
    /\ UNCHANGED <<engine, args, adh_history, discovery_time, avg_air_temp, ret,
                   henssgeVars, uiVars>>

\* lines 88-102: the result dictionary
BasicReturn ==
    /\ engine = "basic"
    /\ \/ pc = "break"
       \/ pc = "loop" /\ idx = Len(args.df_weather)
    /\ pc' = "returned"
    /\ IF Truthy(estimated_time)
       THEN ret' = [status |-> "success",
                    estimated_death_time |-> estimated_time,
                    total_adh_accumulated |-> accumulated_adh,
                    hours_ago |-> args.df_weather[1].Time - estimated_time]
       ELSE ret' = [status |-> "fail", msg |-> "insufficient data"]
    /\ UNCHANGED <<engine, args, idx, accumulated_adh, adh_history, estimated_time,
                   discovery_time, avg_air_temp, henssgeVars, uiVars>>

NextEngine ==
    \/ /\ pc = "idle"
       /\ \E sp \in SpeciesSet, st \in StageSet, df \in SeriesSet, c \in ContextSet :
            MasterCall([species |-> sp, stage |-> st, df_weather |-> df,
                        correction |-> c.correction,
                        max_maggot_heat |-> c.max_maggot_heat,
                        sun_exposure |-> c.sun_exposure,
                        event_params |-> c.event_params,
                        soil_params |-> c.soil_params])
    \/ MasterIterate
    \/ MasterReturn
    \/ /\ pc = "idle"
       /\ \E sp \in BasicSpeciesSet, st \in BasicStageSet, df \in SeriesSet,
             cf \in BasicCorrectionSet :
            BasicCall(sp, st, df, cf)
    \/ BasicIterate
    \/ BasicReturn

SpecEngine == Init /\ [][NextEngine]_vars

-----------------------------------------------------------------------------
(* HenssgeCalculator.calculate.  Temperatures and the clothing factor are in
   tenths, hours in thousandths.  The cube root and the logarithm are
   computed in fixed point: the root rounded down to hundredths, the
   logarithm by range reduction to [1, 2) and two terms of the atanh series. *)

\* self.NORMAL_BODY_TEMP = 37.2, in tenths of a degree
NORMAL_BODY_TEMP == 372

\* COOLING_CONSTANT = 10.0
COOLING_CONSTANT == 10

\* (body_weight / 70.0) ** 0.333, in hundredths
WeightCorrection(body_weight) ==
    CHOOSE k \in 0..300 :
        /\ k * k * k * 70 <= body_weight * 1000000
        /\ (k + 1) * (k + 1) * (k + 1) * 70 > body_weight * 1000000

\* largest n with q * 2^n <= p, for 0 < q <= p
RECURSIVE Log2Floor(_, _)
Log2Floor(p, q) == IF 2 * q > p THEN 0 ELSE 1 + Log2Floor(p, 2 * q)

\* -np.log(num / den) for 0 < num < den, in thousandths
NegLog(num, den) ==
    LET n == Log2Floor(den, num)
        q == num * 2 ^ n
        z == (1000 * (den - q)) \div (den + q)
    IN  693 * n + 2 * (z + (z * z * z) \div 3000000)

\* calculate with only the rectal differential validated
HenssgeCalculate_OneCheck(rectal_temp, ambient_temp, body_weight, clothing_factor) ==
    LET temp_diff == rectal_temp - ambient_temp
        initial_diff == NORMAL_BODY_TEMP - ambient_temp
    IN  IF temp_diff <= 0
        THEN [estimated_hours |-> None, confidence_interval |-> None]
        ELSE LET total_factor == WeightCorrection(body_weight) * clothing_factor
                 estimated_hours ==
                     IF temp_diff >= initial_diff THEN 0
                     ELSE (COOLING_CONSTANT * NegLog(temp_diff, initial_diff)
                           * total_factor) \div 1000
             IN  [estimated_hours |-> estimated_hours,
                  confidence_interval |-> 2000 + estimated_hours \div 10]

\* calculate(rectal_temp, ambient_temp, body_weight, clothing_factor); the
\* invalid-input return (None, message) has estimated_hours = None
HenssgeCalculate(rectal_temp, ambient_temp, body_weight, clothing_factor) ==
    LET temp_diff == rectal_temp - ambient_temp
        initial_diff == NORMAL_BODY_TEMP - ambient_temp
    IN  IF temp_diff <= 0 \/ initial_diff <= 0
        THEN [estimated_hours |-> None, confidence_interval |-> None]
        ELSE LET total_factor == WeightCorrection(body_weight) * clothing_factor
                 \* y = temp_diff / initial_diff >= 1.0
                 estimated_hours ==
                     IF temp_diff >= initial_diff THEN 0
                     ELSE (COOLING_CONSTANT * NegLog(temp_diff, initial_diff)
                           * total_factor) \div 1000
             IN  [estimated_hours |-> estimated_hours,
                  confidence_interval |-> 2000 + estimated_hours \div 10]

\* rectal and ambient readings in tenths: the UI ranges and the spec's examples
RectalSet == {180, 200, 360, 372, 400}
AmbientSet == {0 - 100, 100, 200, 372, 400}
WeightSet == {30, 70, 150}
ClothingSet == {10, 12, 14, 18}

\* one call of calculate
HenssgeCall(rectal_temp, ambient_temp, body_weight, clothing_factor) ==
    /\ h_args' = [rectal_temp |-> rectal_temp, ambient_temp |-> ambient_temp,
                  body_weight |-> body_weight, clothing_factor |-> clothing_factor]
    /\ h_ret' = HenssgeCalculate(rectal_temp, ambient_temp, body_weight, clothing_factor)
    /\ UNCHANGED <<engineVars, uiVars>>

NextHenssge ==
    \E r \in RectalSet, a \in AmbientSet, w \in WeightSet, c \in ClothingSet :
        HenssgeCall(r, a, w, c)

SpecHenssge == Init /\ [][NextHenssge]_vars

-----------------------------------------------------------------------------
(* The Streamlit script of app.py: every interaction reruns it top to bottom.
   One action is one run of the insect tab and the report tab. *)

\* calculate as the script calls it: the loop run to its end
RECURSIVE MasterLoop(_, _, _, _, _)
MasterLoop(a, i, acc, hist, estimated) ==
    IF i > Len(a.df_weather)
    THEN [onset |-> estimated, total |-> acc, trace |-> hist]
    ELSE LET row == a.df_weather[i]
             step == SampleStep(a, row, acc, MaxTimeOf(a.df_weather), Mean(a.df_weather))
             reached == TargetReached(step.acc, step.rec.Target_ADH)
         IN  IF reached
             THEN [onset |-> NextEstimate(reached, row.Time, estimated),
                   total |-> step.acc, trace |-> TraceAfter(hist, step.rec)]
             ELSE MasterLoop(a, i + 1, step.acc, TraceAfter(hist, step.rec),
                             NextEstimate(reached, row.Time, estimated))

calculate(a) == MasterLoop(a, 1, 0, <<>>, None)

\* the row of dt holding its latest hour
LatestIndex(dt) ==
    CHOOSE i \in 1..Len(dt) : \A j \in 1..Len(dt) : dt[j].Time <= dt[i].Time

\* sort_values('Time', ascending=False) of a frame with distinct hours
RECURSIVE SortDescending(_)
SortDescending(dt) ==
    IF dt = <<>> THEN <<>>
    ELSE LET m == LatestIndex(dt)
         IN  <<dt[m]>> \o SortDescending(SubSeq(dt, 1, m - 1) \o SubSeq(dt, m + 1, Len(dt)))

\* st.session_state[key] = value
SessionSet(state, key, value) ==
    [k \in DOMAIN state \cup {key} |-> IF k = key THEN value ELSE state[k]]

\* what Hourly(...).fetch() may hand back: oldest first, possibly empty
FetchSet ==
    {dt \in UNION {[1..n -> [Time : 0..1, Temp : {4, 30}]] : n \in 0..2} :
        \A i \in 1..Len(dt) : \A j \in 1..Len(dt) : i < j => dt[i].Time < dt[j].Time}

\* widget settings: the defaults of the page, an egg-stage case in the sun
\* and a burial with the event box ticked
SettingsSet ==
    {[sp |-> "Lucilia sericata (Korea - Busan)", stg |-> "instar_3_feed",
      use_maggot |-> TRUE, max_heat |-> 5, sun_v |-> 0 - 2,
      is_burial |-> FALSE, soil_d |-> 30, use_event |-> FALSE],
     [sp |-> "Chrysomya megacephala", stg |-> "egg",
      use_maggot |-> FALSE, max_heat |-> 5, sun_v |-> 5,
      is_burial |-> FALSE, soil_d |-> 30, use_event |-> FALSE],
     [sp |-> "Lucilia sericata (Global/Avg)", stg |-> "egg",
      use_maggot |-> TRUE, max_heat |-> 5, sun_v |-> 0,
      is_burial |-> TRUE, soil_d |-> 30, use_event |-> TRUE]}

\* lines 302-308: the arguments the script passes to calculate
ScriptArgs(w, series) ==
    [species |-> w.sp, stage |-> w.stg, df_weather |-> series,
     correction |-> 10,
     max_maggot_heat |-> IF w.use_maggot THEN w.max_heat ELSE 0,
     sun_exposure |-> w.sun_v,
     soil_params |-> [active |-> w.is_burial, use_measured |-> FALSE,
                      depth |-> w.soil_d, measured_temp |-> 0],
     event_params |-> [active |-> w.use_event, temp_increase |-> 15,
                       duration |-> 2, end_hours_ago |-> 6]]

\* lines 291-298: the session after the load button
AfterLoad(state, pressed, dt) ==
    IF pressed /\ dt # <<>>
    THEN SessionSet(state, "w_data_v16", SortDescending(dt))
    ELSE state

\* the calculation block storing the result of every run, estimate or not
AfterCalculation_AlwaysStore(state, w) ==
    IF "w_data_v16" \in DOMAIN state
    THEN LET res == calculate(ScriptArgs(w, state["w_data_v16"]))
         IN  SessionSet(SessionSet(state, "final_report_data", res.trace),
                        "final_meta", [Species |-> w.sp, Result |-> res.onset])
    ELSE state

\* lines 301-344: the session after the calculation block
AfterCalculation(state, w) ==
    IF "w_data_v16" \in DOMAIN state
    THEN LET res == calculate(ScriptArgs(w, state["w_data_v16"]))
         IN  IF Truthy(res.onset)
             THEN SessionSet(SessionSet(state, "final_report_data", res.trace),
                             "final_meta", [Species |-> w.sp, Result |-> res.onset])
             ELSE state
    ELSE state

\* one run of the script, the load button pressed or not
ScriptRun(pressed, dt, w) ==
    LET loaded == AfterLoad(session, pressed, dt)
        done == AfterCalculation(loaded, w)
    IN  /\ session' = done
        /\ last_fetch' = IF ~pressed THEN "none"
                         ELSE IF dt # <<>> THEN "ok" ELSE "empty"
        /\ engine_ran' = ("w_data_v16" \in DOMAIN loaded)
        /\ ui_out' = [load_message |-> IF ~pressed THEN "none"
                                       ELSE IF dt # <<>> THEN "success" ELSE "error",
                      estimate_shown |->
                          /\ "w_data_v16" \in DOMAIN loaded
                          /\ Truthy(calculate(ScriptArgs(w, loaded["w_data_v16"])).onset),
                      report_offered |-> "final_report_data" \in DOMAIN done]
        /\ UNCHANGED <<engineVars, henssgeVars>>

NextUI ==
    \E pressed \in BOOLEAN, dt \in FetchSet, w \in SettingsSet :
        ScriptRun(pressed, dt, w)

SpecUI == Init /\ [][NextUI]_vars

-----------------------------------------------------------------------------
(* Vocabulary of the properties *)

\* a master call past its table lookups
MasterRunning == engine = "master" /\ pc \in {"loop", "break", "returned"}

\* a basic call past its validation
BasicRunning ==
    /\ engine = "basic"
    /\ pc \in {"loop", "break", "returned"}
    /\ args.species \in DOMAIN basic_insect_db
    /\ args.stage \in DOMAIN basic_insect_db[args.species].stages

\* the species or stage of the call is in no table
UnknownReference ==
    \/ /\ engine = "master"
       /\ \/ args.species \notin DOMAIN insect_db
          \/ args.stage \notin DOMAIN insect_db[args.species].stages
    \/ /\ engine = "basic"
       /\ \/ args.species \notin DOMAIN basic_insect_db
          \/ args.stage \notin DOMAIN basic_insect_db[args.species].stages

\* the target of the running call, in 1/Adh degree-hours
CallTarget ==
    IF engine = "master"
    THEN insect_db[args.species].stages[args.stage] * Adh
    ELSE basic_insect_db[args.species].stages[args.stage] * Adh

CallLdt == Tenths(insect_db[args.species].LDT)
CallUdt == Tenths(insect_db[args.species].UDT)

\* the running total before trace record k was appended
PrevAcc(k) == IF k = 1 THEN 0 ELSE adh_history[k - 1].Accumulated_ADH_Reverse

\* what sample k added
Contribution(k) == adh_history[k].Accumulated_ADH_Reverse - PrevAcc(k)

\* the newest timestamp of a non-empty series
Newest(df) == CHOOSE t \in {df[i].Time : i \in 1..Len(df)} :
                  \A i \in 1..Len(df) : df[i].Time <= t

\* the event delta trace record k received, as its flag says
EventDelta(k) ==
    IF adh_history[k].Event_Active THEN args.event_params.temp_increase * Deg ELSE 0

-----------------------------------------------------------------------------
(* C1: in MasterPMICalculatorV16.calculate every processed sample adds
   exactly (effective_temp - LDT) * multiplier when LDT < effective_temp <
   UDT and exactly 0 when effective_temp <= LDT or effective_temp >= UDT;
   it is flagged overheated exactly when effective_temp >= UDT. *)
C1_HeatContribution ==
    MasterRunning =>
        \A k \in 1..Len(adh_history) :
            LET t == adh_history[k].Final_Temp
            IN  /\ (CallLdt < t /\ t < CallUdt)
                      => Contribution(k) = (t - CallLdt) * args.correction
                /\ (t <= CallLdt \/ t >= CallUdt) => Contribution(k) = 0
                /\ adh_history[k].Overheat_Status <=> (t >= CallUdt)

\* a trace holding a sample exactly at UDT (flagged, adds nothing), a sample
\* exactly at LDT (adds nothing) and a sample strictly between (adds heat)
C1_Witness ==
    /\ MasterRunning
    /\ \E k \in 1..Len(adh_history) :
          /\ adh_history[k].Final_Temp = CallUdt
          /\ adh_history[k].Overheat_Status
          /\ Contribution(k) = 0
    /\ \E k \in 1..Len(adh_history) :
          /\ adh_history[k].Final_Temp = CallLdt
          /\ Contribution(k) = 0
    /\ \E k \in 1..Len(adh_history) :
          /\ adh_history[k].Final_Temp > CallLdt
          /\ adh_history[k].Final_Temp < CallUdt
          /\ Contribution(k) > 0

-----------------------------------------------------------------------------
(* C2: both engines stop at the first sample, in iteration order, after
   which accumulated >= target and report that sample's timestamp as the
   onset: while the loop goes on the total is below the target, the loop is
   left on the crossing sample, nothing is processed after it, and when the
   first sample alone meets the target the onset is the newest timestamp of
   the series. *)
C2_StopState ==
    (MasterRunning \/ BasicRunning) =>
        /\ pc = "loop" => accumulated_adh < CallTarget /\ estimated_time = None
        /\ (pc = "break" \/ (pc = "returned" /\ estimated_time # None)) =>
              /\ idx >= 1
              /\ estimated_time = args.df_weather[idx].Time
              /\ accumulated_adh >= CallTarget
              /\ idx = 1 => estimated_time = Newest(args.df_weather)
        /\ (pc = "returned" /\ estimated_time # None) =>
              IF engine = "master"
              THEN ret.onset = estimated_time
              ELSE ret.status = "success" /\ ret.estimated_death_time = estimated_time

C2_NoLaterSample ==
    (pc \in {"break", "returned"}) =>
        /\ idx' = idx
        /\ accumulated_adh' = accumulated_adh
        /\ estimated_time' = estimated_time
        /\ adh_history' = adh_history

C2_FirstCrossingStops == [](C2_StopState) /\ [][C2_NoLaterSample]_vars

\* a run that crossed the target on its second sample and returned with a
\* third sample left unprocessed
C2_Witness ==
    /\ MasterRunning
    /\ pc = "returned"
    /\ idx = 2
    /\ Len(args.df_weather) = 3
    /\ ret.onset = args.df_weather[2].Time
    /\ adh_history[1].Accumulated_ADH_Reverse > 0

(* C3: when the series (an empty one included) is exhausted with accumulated
   < target the engines report no estimate (onset None, status "fail") and
   no timestamp; an onset is reported only if the final accumulated value is
   >= target. *)
C3_NoEstimateWhenExhausted ==
    ((MasterRunning \/ BasicRunning) /\ pc = "returned") =>
        /\ (idx = Len(args.df_weather) /\ accumulated_adh < CallTarget) =>
              IF engine = "master"
              THEN ret.onset = None
              ELSE /\ ret.status = "fail"
                   /\ "estimated_death_time" \notin DOMAIN ret
        /\ IF engine = "master"
           THEN ret.onset # None => ret.total >= CallTarget
           ELSE ret.status = "success" =>
                    /\ ret.total_adh_accumulated >= CallTarget
                    /\ ret.estimated_death_time # None

\* a full series consumed with some heat gathered, short of the target
C3_Witness ==
    /\ MasterRunning
    /\ pc = "returned"
    /\ idx = MaxLen
    /\ Len(args.df_weather) = MaxLen
    /\ accumulated_adh > 0
    /\ accumulated_adh < CallTarget
    /\ ret.onset = None

(* C4: the running accumulated ADH never decreases from one processed sample
   to the next, in both engines. *)
C4_AccumulationMonotone ==
    [][pc = "loop" => accumulated_adh' >= accumulated_adh]_vars

\* a trace with a sample below LDT after heat was already gathered
C4_Witness ==
    /\ MasterRunning
    /\ \E k \in 2..Len(adh_history) :
          /\ adh_history[k].Final_Temp < CallLdt
          /\ PrevAcc(k) > 0
          /\ Contribution(k) = 0

(* C5: a species or stage that is in no reference table is reported to the
   caller as a tagged error result before any sample is processed, by both
   engines. *)
C5_UnknownReferenceTagged ==
    (engine # "none" /\ UnknownReference) =>
        /\ pc = "returned"
        /\ ret.status = "error"
        /\ idx = 0
        /\ accumulated_adh = 0

(* C6: with the event active a sample gets the event delta and Event_Active
   exactly when its age in hours, measured from the newest timestamp of the
   whole series, lies in [end_hours_ago, end_hours_ago + duration], both
   ends included; every other sample gets no delta and Event_Active false. *)
C6_EventWindow ==
    MasterRunning =>
        \A k \in 1..Len(adh_history) :
            LET ev == args.event_params
                h == Newest(args.df_weather) - adh_history[k].Time
                inside == /\ ev.active
                          /\ ev.end_hours_ago <= h
                          /\ h <= ev.end_hours_ago + ev.duration
            IN  /\ adh_history[k].Event_Active <=> inside
                /\ adh_history[k].Final_Temp
                     = SoilCorrect(args.soil_params, adh_history[k].Base_Temp,
                                   Mean(args.df_weather))
                       + adh_history[k].Applied_Maggot_Heat
                       + args.sun_exposure * Deg
                       + (IF inside THEN ev.temp_increase * Deg ELSE 0)

\* an active event whose trace has the newest sample outside the window and
\* samples on both ends of it
C6_Witness ==
    /\ MasterRunning
    /\ args.event_params.active
    /\ Len(adh_history) = 3
    /\ ~adh_history[1].Event_Active
    /\ adh_history[2].Event_Active
    /\ adh_history[3].Event_Active
    /\ adh_history[1].Time - adh_history[2].Time = args.event_params.end_hours_ago
    /\ adh_history[1].Time - adh_history[3].Time
          = args.event_params.end_hours_ago + args.event_params.duration

(* C9: with soil correction active and no measured temperature, at depth 0
   the soil-corrected temperature is the base temperature; the damping
   factor never exceeds 1.0 and is 1.0 at the deepest setting, where the
   soil-corrected temperature is the mean of the series, less depth * 0.05
   only when the base temperature is above 20. *)
C9_SoilDamping ==
    /\ pc = "idle" => /\ \A d \in 0..MaxDepth : Damp(d) <= 1000
                      /\ Damp(MaxDepth) = 1000
    /\ (MasterRunning /\ args.soil_params.active /\ ~args.soil_params.use_measured) =>
          \A k \in 1..Len(adh_history) :
              LET n == Len(args.df_weather)
                  depth == args.soil_params.depth
                  base == adh_history[k].Base_Temp
                  soil_temp == adh_history[k].Final_Temp
                               - adh_history[k].Applied_Maggot_Heat
                               - args.sun_exposure * Deg
                               - EventDelta(k)
              IN  /\ Damp(depth) <= 1000
                  /\ depth = 0 => soil_temp = base
                  /\ depth = MaxDepth =>
                        n * soil_temp
                          = SumTemp(args.df_weather) * Deg
                            - (IF base > 20 * Deg THEN n * depth * (Deg \div 20) ELSE 0)

\* deepest burial, a series whose mean is no reading of it, with a reading
\* above 20 and one below
C9_Witness ==
    /\ MasterRunning
    /\ args.soil_params.active
    /\ ~args.soil_params.use_measured
    /\ args.soil_params.depth = MaxDepth
    /\ Len(adh_history) = 3
    /\ \A i \in 1..3 : args.df_weather[i].Temp * 3 # SumTemp(args.df_weather)
    /\ \E k \in 1..3 : adh_history[k].Base_Temp > 20 * Deg
    /\ \E k \in 1..3 : adh_history[k].Base_Temp < 20 * Deg

(* C10: with max_maggot_heat > 0 the self-heating of a sample follows the
   remaining distance r = max(0, target - accumulated) as it stands before
   the sample is added: 0 below instar_1, 30% of max from instar_1 up to
   instar_2, all of max up to instar_3_feed, 20% of max up to
   instar_3_wander, 0 from there on; with max_maggot_heat = 0 it is 0. *)
C10_DynamicHeatBins ==
    MasterRunning =>
        \A k \in 1..Len(adh_history) :
            LET st == insect_db[args.species].stages
                d == CallTarget - PrevAcc(k)
                r == IF d < 0 THEN 0 ELSE d
                m == args.max_maggot_heat * Deg
                heat == adh_history[k].Applied_Maggot_Heat
            IN  IF args.max_maggot_heat > 0
                THEN /\ r < st.instar_1 * Adh => heat = 0
                     /\ (st.instar_1 * Adh <= r /\ r < st.instar_2 * Adh)
                           => 10 * heat = 3 * m
                     /\ (st.instar_2 * Adh <= r /\ r < st.instar_3_feed * Adh)
                           => heat = m
                     /\ (st.instar_3_feed * Adh <= r /\ r < st.instar_3_wander * Adh)
                           => 10 * heat = 2 * m
                     /\ r >= st.instar_3_wander * Adh => heat = 0
                ELSE heat = 0

\* a trace whose first sample sits on the instar_2 threshold (full heat) and
\* whose second, after heat was gathered, has dropped to 30%
C10_Witness ==
    /\ MasterRunning
    /\ args.max_maggot_heat > 0
    /\ Len(adh_history) >= 2
    /\ adh_history[1].Applied_Maggot_Heat = args.max_maggot_heat * Deg
    /\ PrevAcc(2) > 0
    /\ 10 * adh_history[2].Applied_Maggot_Heat = 3 * args.max_maggot_heat * Deg

(* C7: after any sequence of weather loads the engine is never invoked in a
   script run whose load came back empty; in particular it does not run on a
   series kept in the session from an earlier load. *)
C7_NoEngineAfterEmptyFetch == last_fetch = "empty" => ~engine_ran

(* C8: HenssgeCalculator.calculate returns the invalid-input outcome (no
   numeric estimate) exactly when rectal - ambient <= 0 or 37.2 - ambient
   <= 0; for every other input it returns a numeric estimate, which is 0
   hours whenever y = (rectal - ambient) / (37.2 - ambient) >= 1. *)
C8_HenssgeInvalidInput ==
    h_args # <<>> =>
        LET num == h_args.rectal_temp - h_args.ambient_temp
            den == 372 - h_args.ambient_temp
            invalid == num <= 0 \/ den <= 0
        IN  /\ h_ret.estimated_hours = None <=> invalid
            /\ ~invalid => h_ret.estimated_hours >= 0
            /\ (~invalid /\ num >= den) => h_ret.estimated_hours = 0
            /\ (h_args.rectal_temp = 180 /\ h_args.ambient_temp = 200)
                  => h_ret.estimated_hours = None
            /\ (h_args.rectal_temp = 360 /\ h_args.ambient_temp = 200)
                  => h_ret.estimated_hours # None

\* a body warmer than its surroundings in air exactly at body temperature:
\* only the second differential is non-positive
C8_Witness ==
    /\ h_args # <<>>
    /\ h_args.rectal_temp > h_args.ambient_temp
    /\ h_args.ambient_temp = 372
    /\ h_ret.estimated_hours = None

-----------------------------------------------------------------------------
\* what the sample behind trace record k must add, from its final temperature
ExpectedHeat(k) ==
    LET t == adh_history[k].Final_Temp
    IN  IF CallLdt < t /\ t < CallUdt THEN (t - CallLdt) * args.correction ELSE 0

RECURSIVE SumExpected(_)
SumExpected(k) == IF k = 0 THEN 0 ELSE SumExpected(k - 1) + ExpectedHeat(k)

(* C11: MasterPMICalculatorV16.calculate appends exactly one trace record
   per processed sample, in processing order, whether or not the sample
   added heat: the trace has k+1 records when the target is first met at
   sample index k and len(series) records when it is never met; the running
   value of each record is the sum of the contributions up to and including
   it, and the last record's value is the returned total. *)
C11_TracePerSample ==
    MasterRunning =>
        /\ Len(adh_history) = idx
        /\ \A k \in 1..Len(adh_history) :
              /\ adh_history[k].Time = args.df_weather[k].Time
              /\ adh_history[k].Base_Temp = args.df_weather[k].Temp * Deg
              /\ adh_history[k].Accumulated_ADH_Reverse = SumExpected(k)
              /\ k < Len(adh_history)
                    => adh_history[k].Accumulated_ADH_Reverse < CallTarget
        /\ pc = "returned" =>
              /\ ret.trace = adh_history
              /\ ret.total = SumExpected(Len(ret.trace))
              /\ ret.trace # <<>> =>
                    ret.trace[Len(ret.trace)].Accumulated_ADH_Reverse = ret.total
              /\ IF ret.total >= CallTarget
                 THEN /\ Len(ret.trace) >= 1
                      /\ ret.onset = args.df_weather[Len(ret.trace)].Time
                 ELSE Len(ret.trace) = Len(args.df_weather)

\* a returned run that met the target on its third sample (index 2), whose
\* second sample added nothing and still left a record
C11_Witness ==
    /\ MasterRunning
    /\ pc = "returned"
    /\ Len(ret.trace) = 3
    /\ ret.onset = args.df_weather[3].Time
    /\ Contribution(1) > 0
    /\ Contribution(2) = 0
    /\ ret.trace[3].Accumulated_ADH_Reverse = ret.total

-----------------------------------------------------------------------------
\* the session entries the report tab reads
ReportState(state) ==
    [k \in DOMAIN state \cap {"final_report_data", "final_meta"} |-> state[k]]

(* C12: in the UI final_report_data and final_meta are written only by a
   script run whose engine call produced an onset estimate; a run that ends
   with no estimate leaves both as they were, so the report tab goes on
   offering the earlier run's trace and result. *)
C12_ReportStep ==
    /\ ~ui_out'.estimate_shown => ReportState(session') = ReportState(session)
    /\ ReportState(session') # ReportState(session) => engine_ran'
    /\ ui_out'.estimate_shown =>
          LET trace == session'["final_report_data"]
              series == session'["w_data_v16"]
          IN  /\ DOMAIN ReportState(session') = {"final_report_data", "final_meta"}
              /\ trace # <<>>
              /\ Len(trace) <= Len(series)
              /\ \A k \in 1..Len(trace) : trace[k].Time = series[k].Time
              /\ session'["final_meta"].Result = trace[Len(trace)].Time
    /\ ui_out'.report_offered <=> "final_report_data" \in DOMAIN session'

C12_ReportOnlyOnEstimate == [][C12_ReportStep]_vars

\* a run of the engine that gave no estimate, with the report of an earlier
\* run still stored and offered
C12_Witness ==
    /\ engine_ran
    /\ ~ui_out.estimate_shown
    /\ ui_out.report_offered
    /\ "final_report_data" \in DOMAIN session
    /\ "final_meta" \in DOMAIN session
    /\ session["final_meta"].Result
          = session["final_report_data"][Len(session["final_report_data"])].Time

====
